---- MODULE Spec2Model ----
(***************************************************************************)
(* Lifecycle of the node network config request controller and of the      *)
(* multi-tenant controller (azure-container-networking, cns).              *)
(*                                                                         *)
(* Callers are goroutines of the embedding process.  Every exported method *)
(* is split at the points where it can block or where another goroutine    *)
(* can observe it: taking the mutex, each call to the cluster, the call to *)
(* the local service, the watch manager's blocking run.                    *)
(***************************************************************************)
EXTENDS Integers, Sequences, FiniteSets, TLC

----------------------------------------------------------------------------
(* Bounds of the model *)

MaxNCs == 1
MaxPods == 2
MaxRuns == 2

(* the goroutines of the embedding process that call into the controllers *)
Callers == {"g1", "g2"}

(* the value of a mutex nobody holds *)
Free == "free"

----------------------------------------------------------------------------
(* Errors.  kind "status" is *apierrors.StatusError; hasDetails says       *)
(* whether ErrStatus.Details (a pointer) is non-nil; causes is             *)
(* ErrStatus.Details.Causes reduced to the cause types.                    *)

NoErr == [kind |-> "nil", msg |-> "", reason |-> "", hasDetails |-> FALSE, causes |-> <<>>]

PlainErr(m) == [kind |-> "plain", msg |-> m, reason |-> "", hasDetails |-> FALSE, causes |-> <<>>]

StatusErr(r, d, cs) == [kind |-> "status", msg |-> "", reason |-> r, hasDetails |-> d, causes |-> cs]

CauseTypeUnexpectedServerResponse == "UnexpectedServerResponse"

ErrTimeout == PlainErr("timeout")
ErrNotFound == StatusErr("NotFound", TRUE, <<>>)
ErrKindNotDefined == StatusErr("NotFound", TRUE, <<"FieldValueNotFound", CauseTypeUnexpectedServerResponse>>)
ErrUnauthorized == StatusErr("Unauthorized", FALSE, <<>>)

ErrSink == PlainErr("ReconcileNCState failed")
ErrListPods == PlainErr("list pods failed")
ErrTranslation == PlainErr("translation failed")
ErrNotInitialized == PlainErr("Failed to start requestController, state is not initialized")

(* what the cluster's API can answer a read or a watch-manager run with *)
ClusterErrors == {ErrTimeout, ErrNotFound, ErrKindNotDefined, ErrUnauthorized}

(* apierrors.IsNotFound: the reason of a status error is NotFound *)
IsNotFound(e) == e.kind = "status" /\ e.reason = "NotFound"

(* client.IgnoreNotFound: nil for a not-found error, the error otherwise *)
IgnoreNotFound(e) == IF IsNotFound(e) THEN NoErr ELSE e

(* the range loop of isNotDefined over Details.Causes, from index i on *)
RECURSIVE ScanCauses(_, _)
ScanCauses(e, i) ==
    IF i > Len(e.causes) THEN FALSE
    ELSE IF e.causes[i] = CauseTypeUnexpectedServerResponse /\ IsNotFound(e) THEN TRUE
    ELSE ScanCauses(e, i + 1)

(* statusError.ErrStatus.Details.Causes dereferences Details: a status     *)
(* error without a details record makes the classifier panic.              *)
isNotDefinedFaults(e) == e.kind = "status" /\ ~e.hasDetails

isNotDefined(e) ==
    IF e.kind = "nil" THEN FALSE
    ELSE IF e.kind # "status" THEN FALSE
    ELSE IF Len(e.causes) > 0 THEN ScanCauses(e, 1)
    ELSE FALSE

mtcIsNotDefinedFaults(e) == e.kind = "status" /\ ~e.hasDetails

mtcIsNotDefined(e) ==
    IF e.kind = "nil" THEN FALSE
    ELSE IF e.kind # "status" THEN FALSE
    ELSE IF Len(e.causes) > 0 THEN ScanCauses(e, 1)
    ELSE FALSE

----------------------------------------------------------------------------
(* The node's resource, pods and the request handed to the local service *)

(* the scaler of the status and the spec, as the cluster holds them together *)
Configs == {[scaler |-> "scalerA", spec |-> "specA"], [scaler |-> "scalerB", spec |-> "specB"]}

(* a network container of the status; malformed marks one the translator rejects *)
Containers == {[id |-> "nc1", malformed |-> FALSE], [id |-> "nc2", malformed |-> TRUE]}

SeqsUpTo(S, n) == UNION {[1..k -> S] : k \in 0..n}

NilNNC == [isNil |-> TRUE, ncs |-> <<>>, scaler |-> "", spec |-> ""]

NodeNetConfigs ==
    {[isNil |-> FALSE, ncs |-> c, scaler |-> k.scaler, spec |-> k.spec] :
        c \in SeqsUpTo(Containers, MaxNCs), k \in Configs}

PodUniverse ==
    {[name |-> "web", namespace |-> "default", ip |-> "10.244.1.2", hostNetwork |-> FALSE],
     [name |-> "proxy", namespace |-> "kube-system", ip |-> "10.0.0.5", hostNetwork |-> TRUE],
     [name |-> "job", namespace |-> "batch", ip |-> "10.244.1.2", hostNetwork |-> FALSE],
     [name |-> "agent", namespace |-> "kube-system", ip |-> "10.0.0.5", hostNetwork |-> FALSE]}

NilPodList == [isNil |-> TRUE, items |-> <<>>]

PodLists == {[isNil |-> FALSE, items |-> s] : s \in SeqsUpTo(PodUniverse, MaxPods)}

NilMap == [isNil |-> TRUE, m |-> <<>>]

NilRequest == [isNil |-> TRUE, ncid |-> ""]

(* CRDStatusToNCRequest: the translation of the status; it fails on a      *)
(* structurally invalid status and yields a request otherwise.             *)
CRDStatusToNCRequest(status) ==
    IF \E i \in 1..Len(status.ncs) : status.ncs[i].malformed
    THEN <<NilRequest, ErrTranslation>>
    ELSE <<[isNil |-> FALSE, ncid |-> status.ncs[1].id], NoErr>>

(* what rc.directCRDClient.Get can answer: an object, or an error that     *)
(* comes with no object or with a partly decoded one                       *)
DirectGetAnswers ==
    {<<obj, NoErr>> : obj \in NodeNetConfigs}
    \cup {<<obj, e>> : obj \in {NilNNC, [isNil |-> FALSE, ncs |-> <<>>, scaler |-> "", spec |-> ""]},
                       e \in ClusterErrors}

(* what rc.directAPIClient.ListPods can answer *)
ListPodsAnswers ==
    {<<list, NoErr>> : list \in PodLists}
    \cup {<<list, ErrListPods>> : list \in {NilPodList, [isNil |-> FALSE, items |-> <<>>]}}

(* getNodeNetConfigDirect: the direct client's answer (obj, e); on an      *)
(* error the object is dropped and nil is returned with the error.         *)
getNodeNetConfigDirect(obj, e) == IF e # NoErr THEN <<NilNNC, e>> ELSE <<obj, NoErr>>

(* getAllPods: same shape for the pod listing *)
getAllPods(list, e) == IF e # NoErr THEN <<NilPodList, e>> ELSE <<list, NoErr>>

(* the loop without the host-network test *)
RECURSIVE AddPods_AllPods(_, _, _)
AddPods_AllPods(items, i, m) ==
    IF i > Len(items) THEN m
    ELSE AddPods_AllPods(items, i + 1,
                         (items[i].ip :> [PodName |-> items[i].name, PodNamespace |-> items[i].namespace]) @@ m)

(* the loop of initCNS over pods.Items: a later pod overwrites an earlier  *)
(* one with the same IP; host-network pods are skipped.                    *)
RECURSIVE AddPods(_, _, _)
AddPods(items, i, m) ==
    IF i > Len(items) THEN m
    ELSE IF ~items[i].hostNetwork
         THEN AddPods(items, i + 1,
                      (items[i].ip :> [PodName |-> items[i].name, PodNamespace |-> items[i].namespace]) @@ m)
         ELSE AddPods(items, i + 1, m)

(* podInfoByIP stays nil when the list is empty, is made otherwise *)
BuildPodInfoByIP(list) ==
    IF Len(list.items) # 0 THEN [isNil |-> FALSE, m |-> AddPods(list.items, 1, <<>>)]
    ELSE NilMap

(* The node's resource as rc.KubeClient reads and writes it: the version   *)
(* of the metadata, the spec and the status.                               *)

MaxVersion == 2

NilSpec == [RequestedIPCount |-> 0, IPsNotInUse |-> <<>>]

(* the specs a caller of UpdateCRDSpec asks for, and another writer writes *)
CrdSpecs == {[RequestedIPCount |-> 16, IPsNotInUse |-> <<>>],
             [RequestedIPCount |-> 32, IPsNotInUse |-> <<"10.244.1.9">>]}

CrdStatuses == {"statusA", "statusB"}

NilCRD == [isNil |-> TRUE, version |-> 0, spec |-> NilSpec, status |-> ""]

(* the resource when the controller is constructed *)
FirstCRD == [isNil |-> FALSE, version |-> 1, spec |-> NilSpec, status |-> "statusA"]

ErrConflict == StatusErr("Conflict", TRUE, <<>>)

(* what rc.KubeClient.Get can answer while the cluster holds cur *)
KubeGetAnswers(cur) == {<<cur, NoErr>>, <<NilCRD, ErrNotFound>>, <<NilCRD, ErrTimeout>>}

(* getNodeNetConfig: the object the cached client filled, or nil with the error *)
getNodeNetConfig(obj, e) == IF e # NoErr THEN <<NilCRD, e>> ELSE <<obj, NoErr>>

(* crdSpec.DeepCopyInto(&nodeNetworkConfig.Spec): every field of out is    *)
(* overwritten with the field of in                                        *)
DeepCopyInto(in, out) ==
    [out EXCEPT !.RequestedIPCount = in.RequestedIPCount, !.IPsNotInUse = in.IPsNotInUse]

(* what rc.KubeClient.Update(obj) can do while the cluster holds cur: the  *)
(* write is refused with a conflict when obj does not carry the version    *)
(* the cluster holds; otherwise it is stored under the next version or     *)
(* fails on the way.  Pairs of the resource afterwards and the error.      *)
KubeClientUpdate(obj, cur) ==
    IF obj.version # cur.version THEN {<<cur, ErrConflict>>}
    ELSE {<<cur, ErrTimeout>>}
         \cup (IF cur.version < MaxVersion
               THEN {<<[cur EXCEPT !.version = @ + 1, !.spec = obj.spec], NoErr>>}
               ELSE {})

(* updateNodeNetConfig hands the client's error through *)
updateNodeNetConfig(e) == IF e # NoErr THEN e ELSE NoErr

----------------------------------------------------------------------------
(* Package filter: predicates over the state of an IP configuration *)

MaxIPs == 2
MaxStates == 2

(* cns.Allocated, cns.Available, cns.PendingProgramming, cns.PendingRelease *)
IPConfigStates == {"Allocated", "Available", "PendingProgramming", "PendingRelease"}

(* cns.IPConfigState is a string type: a caller can pass any other value *)
AnyIPConfigStates == IPConfigStates \cup {"bogus"}

(* the values of the map handed to MatchAnyIPConfigState *)
IPConfigurationStatuses ==
    {[ID |-> "allocated", State |-> "Allocated"],
     [ID |-> "allocated-2", State |-> "Allocated"],
     [ID |-> "available", State |-> "Available"],
     [ID |-> "pending-programming", State |-> "PendingProgramming"],
     [ID |-> "pending-release", State |-> "PendingRelease"]}

(* maps of at most MaxIPs entries *)
IPConfigMaps == UNION {[K -> IPConfigurationStatuses] : K \in SUBSET (1..MaxIPs)}

(* ipConfigStatePredicate(test): the closure that holds test *)
ipConfigStatePredicate(test) == [test |-> test]

(* calling a predicate: ipconfig.State == test *)
ApplyPredicate(p, ipconfig) == ipconfig.State = p.test

(* the package's table of predicates, one for each of the four states *)
filters == [s \in IPConfigStates |-> ipConfigStatePredicate(s)]

(* a nil slice, and a made one *)
NilPredicates == [isNil |-> TRUE, items |-> <<>>]
MadeSlice(items) == [isNil |-> FALSE, items |-> items]

(* a matcher that wants every predicate to hold *)
RECURSIVE matchesAnyIPConfigState_All(_, _, _)
matchesAnyIPConfigState_All(in, predicates, i) ==
    IF i > Len(predicates) THEN TRUE
    ELSE IF ~ApplyPredicate(predicates[i], in) THEN FALSE
    ELSE matchesAnyIPConfigState_All(in, predicates, i + 1)

(* matchesAnyIPConfigState: the loop over the predicates from index i on *)
RECURSIVE matchesAnyIPConfigState(_, _, _)
matchesAnyIPConfigState(in, predicates, i) ==
    IF i > Len(predicates) THEN FALSE
    ELSE IF ApplyPredicate(predicates[i], in) THEN TRUE
    ELSE matchesAnyIPConfigState(in, predicates, i + 1)

(* the orders in which a range over a map with the keys K can visit them *)
RangeOrders(K) ==
    {o \in [1..Cardinality(K) -> K] : \A i, j \in 1..Cardinality(K) : i # j => o[i] # o[j]}

(* the loop of MatchAnyIPConfigState over the map, visiting the keys in the order ord *)
RECURSIVE MatchLoop(_, _, _, _, _)
MatchLoop(in, predicates, ord, i, out) ==
    IF i > Len(ord) THEN out
    ELSE IF matchesAnyIPConfigState(in[ord[i]], predicates, 1)
         THEN MatchLoop(in, predicates, ord, i + 1, Append(out, in[ord[i]]))
         ELSE MatchLoop(in, predicates, ord, i + 1, out)

(* MatchAnyIPConfigState(in, predicates...) when the range visits the keys in the order ord *)
MatchAnyIPConfigState(in, predicates, ord) ==
    IF Len(predicates) = 0 \/ Cardinality(DOMAIN in) = 0 THEN MadeSlice(<<>>)
    ELSE MadeSlice(MatchLoop(in, predicates, ord, 1, <<>>))

(* a conversion that builds a predicate for whatever state it is given *)
RECURSIVE PredicatesLoop_NoLookup(_, _, _)
PredicatesLoop_NoLookup(states, i, predicates) ==
    IF i > Len(states) THEN predicates
    ELSE PredicatesLoop_NoLookup(states, i + 1,
                                 MadeSlice(Append(predicates.items, ipConfigStatePredicate(states[i]))))

(* the loop of PredicatesForStates: a state found in filters appends its predicate *)
RECURSIVE PredicatesLoop(_, _, _)
PredicatesLoop(states, i, predicates) ==
    IF i > Len(states) THEN predicates
    ELSE IF states[i] \in DOMAIN filters
         THEN PredicatesLoop(states, i + 1, MadeSlice(Append(predicates.items, filters[states[i]])))
         ELSE PredicatesLoop(states, i + 1, predicates)

(* PredicatesForStates(states...): nil when nothing was appended *)
PredicatesForStates(states) == PredicatesLoop(states, 1, NilPredicates)

----------------------------------------------------------------------------
(* The errors the two isNotDefined classifiers can be handed *)

MaxCauses == 2

CauseTypes == {"FieldValueNotFound", CauseTypeUnexpectedServerResponse}

StatusReasons == {"NotFound", "Unauthorized", "Conflict", "InternalError"}

(* status errors with a details record and up to MaxCauses causes, and without one *)
StatusErrors ==
    {StatusErr(r, TRUE, cs) : r \in StatusReasons, cs \in SeqsUpTo(CauseTypes, MaxCauses)}
    \cup {StatusErr(r, FALSE, <<>>) : r \in StatusReasons}

(* fmt.Errorf("...: %w", e): an error of another type that wraps a status error *)
WrappedErr(e) == [e EXCEPT !.kind = "wrapped"]

ClassifierInputs ==
    {NoErr, ErrTimeout, ErrSink} \cup StatusErrors \cup {WrappedErr(e) : e \in StatusErrors}

(* a call of rc.isNotDefined: it faults, or returns true or false *)
isNotDefinedOutcome(e) ==
    IF isNotDefinedFaults(e) THEN "panic" ELSE IF isNotDefined(e) THEN "true" ELSE "false"

(* a call of mtc.isNotDefined *)
mtcIsNotDefinedOutcome(e) ==
    IF mtcIsNotDefinedFaults(e) THEN "panic" ELSE IF mtcIsNotDefined(e) THEN "true" ELSE "false"

----------------------------------------------------------------------------
(* The constructors *)

(* what a constructor can find in the process and on the cluster *)
CtorEnvs ==
    [loggerSet : BOOLEAN, nodeName : {"", "node-a"}, clientGoSchemeOK : BOOLEAN,
     crdSchemeOK : BOOLEAN, directClientsOK : BOOLEAN, managerOK : BOOLEAN, setupOK : BOOLEAN]

GoodEnv ==
    [loggerSet |-> TRUE, nodeName |-> "node-a", clientGoSchemeOK |-> TRUE, crdSchemeOK |-> TRUE,
     directClientsOK |-> TRUE, managerOK |-> TRUE, setupOK |-> TRUE]

NoController == [isNil |-> TRUE, nodeName |-> "", initialized |-> FALSE, Started |-> FALSE]

(* the struct literal: the flags are not named and so are false *)
NewController(name) == [isNil |-> FALSE, nodeName |-> name, initialized |-> FALSE, Started |-> FALSE]

NotCalled == [called |-> FALSE, controller |-> NoController, err |-> NoErr,
              managerBuilt |-> FALSE, setupCalled |-> FALSE]

(* return nil, err; mgr and setup say how far the construction had come *)
CtorFails(e, mgr, setup) ==
    [called |-> TRUE, controller |-> NoController, err |-> e, managerBuilt |-> mgr, setupCalled |-> setup]

ErrNoLogger == PlainErr("Must initialize logger before calling")
ErrNoNodeName == PlainErr("Must declare NODENAME environment variable.")
ErrClientGoScheme == PlainErr("Error adding client-go scheme to runtime scheme")
ErrCrdScheme == PlainErr("Error adding NodeNetworkConfig scheme to runtime scheme")
ErrMtcCrdScheme == PlainErr("Error adding NetworkContainer scheme to runtime scheme")
ErrDirectClient == PlainErr("Error creating direct API Client")
ErrManager == PlainErr("NewManager failed")
ErrSetup == PlainErr("SetupWithManager failed")

(* a constructor that takes whatever os.Getenv returns *)
NodeNameMissing_Never(env) == FALSE

(* nodeName == "" *)
NodeNameMissing(env) == env.nodeName = ""

(* NewCrdRequestController: the checks in the order of the source *)
NewCrdRequestController(env) ==
    IF ~env.loggerSet THEN CtorFails(ErrNoLogger, FALSE, FALSE)
    ELSE IF NodeNameMissing(env) THEN CtorFails(ErrNoNodeName, FALSE, FALSE)
    ELSE IF ~env.clientGoSchemeOK THEN CtorFails(ErrClientGoScheme, FALSE, FALSE)
    ELSE IF ~env.crdSchemeOK THEN CtorFails(ErrCrdScheme, FALSE, FALSE)
    ELSE IF ~env.directClientsOK THEN CtorFails(ErrDirectClient, FALSE, FALSE)
    ELSE IF ~env.managerOK THEN CtorFails(ErrManager, FALSE, FALSE)
    ELSE IF ~env.setupOK THEN CtorFails(ErrSetup, TRUE, TRUE)
    ELSE [called |-> TRUE, controller |-> NewController(env.nodeName), err |-> NoErr,
          managerBuilt |-> TRUE, setupCalled |-> TRUE]

mtcNodeNameMissing(env) == env.nodeName = ""

(* NewMultiTenantController: the same without the direct clients *)
NewMultiTenantController(env) ==
    IF ~env.loggerSet THEN CtorFails(ErrNoLogger, FALSE, FALSE)
    ELSE IF mtcNodeNameMissing(env) THEN CtorFails(ErrNoNodeName, FALSE, FALSE)
    ELSE IF ~env.clientGoSchemeOK THEN CtorFails(ErrClientGoScheme, FALSE, FALSE)
    ELSE IF ~env.crdSchemeOK THEN CtorFails(ErrMtcCrdScheme, FALSE, FALSE)
    ELSE IF ~env.managerOK THEN CtorFails(ErrManager, FALSE, FALSE)
    ELSE IF ~env.setupOK THEN CtorFails(ErrSetup, TRUE, TRUE)
    ELSE [called |-> TRUE, controller |-> NewController(env.nodeName), err |-> NoErr,
          managerBuilt |-> TRUE, setupCalled |-> TRUE]

----------------------------------------------------------------------------
(* SendToTelemetryService *)

MaxReports == 3
MaxConnects == 3

errorcodePrefix == 5

(* a message on the reports channel: a string, with or without a "Code:"   *)
(* tag followed by word characters, or a value of another type             *)
Messages ==
    {[isString |-> TRUE, tagged |-> FALSE, code |-> <<>>, text |-> "started"],
     [isString |-> TRUE, tagged |-> TRUE, code |-> <<>>, text |-> "Code: none"],
     [isString |-> TRUE, tagged |-> TRUE, code |-> <<"4", "2">>, text |-> "Code:42 failed"],
     [isString |-> FALSE, tagged |-> FALSE, code |-> <<>>, text |-> ""]}

(* the literal part of codeRegex *)
CodeTag == <<"C", "o", "d", "e", ":">>

(* len(codeRegex.FindString(msg)): the tag and the word characters after it, 0 without a match *)
CodeStrLen(msg) == IF msg.tagged THEN Len(CodeTag) + Len(msg.code) ELSE 0

(* &telemetry.CNSReport{}; the timestamp and the UUID of a report are not kept *)
EmptyReport == [Errorcode |-> <<>>, EventMessage |-> ""]

(* the two fields the received message sets: Errorcode only when a code follows the tag *)
SetReportFields(r, msg) ==
    [Errorcode |-> IF CodeStrLen(msg) > errorcodePrefix THEN msg.code ELSE r.Errorcode,
     EventMessage |-> msg.text]

----------------------------------------------------------------------------
(* State *)

VARIABLES
    initialized,    \* requestController.initialized
    Started,        \* requestController.Started
    lock,           \* requestController.lock: Free or the holder
    mtcStarted,     \* multiTenantController.Started
    mtcLock,        \* multiTenantController.lock: Free or the holder
    halted,         \* "no" while the process lives, "exit" after os.Exit(1), "panic" after a fault
    pc,             \* where each caller is
    nodeNetConfig,  \* initCNS local
    ncRequest,      \* initCNS local
    pods,           \* initCNS local
    err,            \* the error the caller last got from the cluster (the read, the listing, the run)
    initErr,        \* what initCNS returns to InitRequestController
    ctxDone,        \* the context passed to the start operation has been cancelled
    ret,            \* what the finished call returned to its caller
    trace,          \* the cold-start steps the caller's current Init call has performed
    cnsCalls,       \* the ReconcileNCState invocations of the caller's current Init call
    coldStartPushed,\* some ReconcileNCState invocation of a cold start has returned
    initReturnedOK, \* some InitRequestController call has returned nil
    mgrRuns,        \* how often rc.mgr.Start has been entered
    mtcMgrRuns,     \* how often mtc.mgr.Start has been entered
    invokedEarly,   \* the caller's Start was invoked when no Init had returned nil yet
    gatedEarly,     \* the caller's Start took the lock when no Init had returned nil yet
    crd,            \* the node's resource as the API server holds it
    updObj,         \* UpdateCRDSpec local nodeNetworkConfig
    updSpec,        \* UpdateCRDSpec argument crdSpec
    kubeCalls,      \* the calls the caller's current UpdateCRDSpec has made on rc.KubeClient
    fpc,            \* filter package: which call comes next
    fStates,        \* argument states of PredicatesForStates
    fPreds,         \* the predicates PredicatesForStates returned
    fIn,            \* argument in of MatchAnyIPConfigState
    fOut,           \* the slice MatchAnyIPConfigState returned
    cErr,           \* the error handed to the two isNotDefined classifiers
    cOut,           \* the outcome of requestController.isNotDefined
    cMtcOut,        \* the outcome of multiTenantController.isNotDefined
    ctorEnv,        \* what the constructors find: logger, NODENAME, schemes, clients, manager
    rcNew,          \* what NewCrdRequestController returned
    mtcNew,         \* what NewMultiTenantController returned
    tpc,            \* SendToTelemetryService: where the goroutine is
    tbConnected,    \* tb.Connected of the current telemetry buffer
    tbClosed,       \* tb.Close() has been called on the current telemetry buffer
    tctxDone,       \* the context of SendToTelemetryService has been cancelled
    taken,          \* reports received from the channel
    writes,         \* calls of tb.Write
    connects,       \* calls of tb.ConnectToTelemetryService
    report,         \* reportMgr.Report
    reportState     \* the report state file exists

vars == <<initialized, Started, lock, mtcStarted, mtcLock, halted, pc, nodeNetConfig,
          ncRequest, pods, err, initErr, ctxDone, ret, trace, cnsCalls, coldStartPushed,
          initReturnedOK, mgrRuns, mtcMgrRuns, invokedEarly, gatedEarly, crd, updObj, updSpec,
          kubeCalls, fpc, fStates, fPreds, fIn, fOut, cErr, cOut, cMtcOut, ctorEnv, rcNew, mtcNew,
          tpc, tbConnected, tbClosed, tctxDone, taken, writes, connects, report, reportState>>

rcState == <<initialized, Started, lock, mgrRuns>>
mtcState == <<mtcStarted, mtcLock, mtcMgrRuns>>
initLocals == <<nodeNetConfig, ncRequest, pods, initErr, trace, cnsCalls>>
history == <<coldStartPushed, initReturnedOK>>
startFlags == <<invokedEarly, gatedEarly>>
updVars == <<crd, updObj, updSpec, kubeCalls>>
filterVars == <<fpc, fStates, fPreds, fIn, fOut>>
classVars == <<cErr, cOut, cMtcOut>>
ctorVars == <<ctorEnv, rcNew, mtcNew>>
telVars == <<tpc, tbConnected, tbClosed, tctxDone, taken, writes, connects, report, reportState>>
pureVars == <<filterVars, classVars, ctorVars, telVars>>

NoRet == [op |-> "", err |-> NoErr, val |-> FALSE]

Alive == halted = "no"

(* both controllers as their constructors return them, no call in flight *)
InitControllers ==
    /\ initialized = FALSE
    /\ Started = FALSE
    /\ lock = Free
    /\ mtcStarted = FALSE
    /\ mtcLock = Free
    /\ halted = "no"
    /\ pc = [p \in Callers |-> "idle"]
    /\ nodeNetConfig = [p \in Callers |-> NilNNC]
    /\ ncRequest = [p \in Callers |-> NilRequest]
    /\ pods = [p \in Callers |-> NilPodList]
    /\ err = [p \in Callers |-> NoErr]
    /\ initErr = [p \in Callers |-> NoErr]
    /\ ctxDone = [p \in Callers |-> FALSE]
    /\ ret = [p \in Callers |-> NoRet]
    /\ trace = [p \in Callers |-> <<>>]
    /\ cnsCalls = [p \in Callers |-> <<>>]
    /\ coldStartPushed = FALSE
    /\ initReturnedOK = FALSE
    /\ mgrRuns = 0
    /\ mtcMgrRuns = 0
    /\ invokedEarly = [p \in Callers |-> FALSE]
    /\ gatedEarly = [p \in Callers |-> FALSE]
    /\ crd = FirstCRD
    /\ updObj = [p \in Callers |-> NilCRD]
    /\ updSpec = [p \in Callers |-> NilSpec]
    /\ kubeCalls = [p \in Callers |-> <<>>]

(* no call into the filter package *)
FilterIdle ==
    /\ fpc = "off" /\ fStates = <<>> /\ fPreds = NilPredicates /\ fIn = <<>> /\ fOut = NilPredicates

(* no call of a classifier *)
ClassifierIdle == cErr = NoErr /\ cOut = "none" /\ cMtcOut = "none"

(* the constructors have run in a complete environment (their results are the controllers) *)
CtorIdle == ctorEnv = GoodEnv /\ rcNew = NotCalled /\ mtcNew = NotCalled

(* SendToTelemetryService has not been started *)
TelemetryIdle ==
    /\ tpc = "off" /\ tbConnected = FALSE /\ tbClosed = FALSE /\ tctxDone = FALSE
    /\ taken = 0 /\ writes = 0 /\ connects = 0 /\ report = EmptyReport /\ reportState = FALSE

Init == InitControllers /\ FilterIdle /\ ClassifierIdle /\ CtorIdle /\ TelemetryIdle

----------------------------------------------------------------------------
(* InitRequestController and initCNS *)

InitRequestController_Call(p) ==
    /\ Alive /\ pc[p] = "idle"
    /\ pc' = [pc EXCEPT ![p] = "init_lock"]
    /\ UNCHANGED <<updVars, pureVars, rcState, mtcState, halted, initLocals, err, ctxDone, ret, history, startFlags>>

(* an Init that does not wait for the lock *)
InitMayEnter_NoLock == TRUE

(* rc.lock.Lock() returns only when nobody holds the lock *)
InitMayEnter == lock = Free

(* rc.lock.Lock() of InitRequestController; the lock is held until the return *)
InitRequestController_Lock(p) ==
    /\ Alive /\ pc[p] = "init_lock" /\ InitMayEnter
    /\ lock' = p
    /\ pc' = [pc EXCEPT ![p] = "init_get"]
    /\ UNCHANGED <<updVars, pureVars, initialized, Started, mgrRuns, mtcState, halted, initLocals, err, ctxDone, ret,
                   history, startFlags>>

(* initCNS without the exit on a kind that is not defined *)
AfterGet_NoExit(nnc, e) ==
    IF e # NoErr THEN
        IF isNotDefinedFaults(e) THEN "panic"
        ELSE IF nnc.isNil THEN "return_nil"
        ELSE IF IgnoreNotFound(e) = NoErr THEN "push_nil"
        ELSE "return_err"
    ELSE IF Len(nnc.ncs) = 0 THEN "push_nil"
    ELSE "translate"

(* what initCNS does with the answer of the direct read *)
AfterGet(nnc, e) ==
    IF e # NoErr THEN
        IF isNotDefinedFaults(e) THEN "panic"
        ELSE IF isNotDefined(e) THEN "exit"
        ELSE IF nnc.isNil THEN "return_nil"
        ELSE IF IgnoreNotFound(e) = NoErr THEN "push_nil"
        ELSE "return_err"
    ELSE IF Len(nnc.ncs) = 0 THEN "push_nil"
    ELSE "translate"

(* the direct read of the node's resource and the branch taken on its answer *)
initCNS_Get(p) ==
    /\ Alive /\ pc[p] = "init_get"
    /\ \E a \in DirectGetAnswers :
        LET r == getNodeNetConfigDirect(a[1], a[2])
            nnc == r[1]
            rerr == r[2]
            next == AfterGet(nnc, rerr)
        IN  IF next = "panic"
            THEN \* the fault unwinds through InitRequestController: its deferred Unlock
                 \* runs, the process goes on until the runtime ends it
                 /\ lock' = Free
                 /\ pc' = [pc EXCEPT ![p] = "panicking"]
                 /\ err' = [err EXCEPT ![p] = rerr]
                 /\ trace' = [trace EXCEPT ![p] = Append(@, "get")]
                 /\ UNCHANGED <<halted, nodeNetConfig, initErr>>
            ELSE IF next = "exit"
            THEN \* os.Exit runs no deferred call
                 /\ halted' = next
                 /\ err' = [err EXCEPT ![p] = rerr]
                 /\ trace' = [trace EXCEPT ![p] = Append(@, "get")]
                 /\ UNCHANGED <<pc, lock, nodeNetConfig, initErr>>
            ELSE /\ nodeNetConfig' = [nodeNetConfig EXCEPT ![p] = nnc]
                 /\ err' = [err EXCEPT ![p] = rerr]
                 /\ trace' = [trace EXCEPT ![p] = Append(@, "get")]
                 /\ initErr' = [initErr EXCEPT ![p] = IF next = "return_err" THEN rerr ELSE NoErr]
                 /\ pc' = [pc EXCEPT ![p] =
                            CASE next = "return_nil" -> "init_ret"
                              [] next = "return_err" -> "init_ret"
                              [] next = "push_nil" -> "init_push_nil"
                              [] next = "translate" -> "init_translate"]
                 /\ UNCHANGED <<halted, lock>>
    /\ UNCHANGED <<updVars, pureVars, initialized, Started, mgrRuns, mtcState, ncRequest, pods, ctxDone, ret,
                   cnsCalls, history, startFlags>>

(* the fault of the classifier has unwound the goroutine, nothing recovers *)
(* it: the runtime ends the process                                        *)
initCNS_PanicEnds(p) ==
    /\ Alive /\ pc[p] = "panicking"
    /\ halted' = "panic"
    /\ pc' = [pc EXCEPT ![p] = "panicked"]
    /\ UNCHANGED <<updVars, pureVars, rcState, mtcState, initLocals, err, ctxDone, ret, history, startFlags>>

(* a nil push that hands over a made, empty pod map instead of nil *)
NilPush_EmptyMap(nnc) ==
    [req |-> NilRequest, podInfoByIP |-> [isNil |-> FALSE, m |-> <<>>], scaler |-> nnc.scaler, spec |-> nnc.spec]

(* the arguments of ReconcileNCState when there is nothing to translate *)
NilPush(nnc) == [req |-> NilRequest, podInfoByIP |-> NilMap, scaler |-> nnc.scaler, spec |-> nnc.spec]

(* return rc.CNSClient.ReconcileNCState(nil, nil, scaler, spec) *)
initCNS_ReconcileNil(p) ==
    /\ Alive /\ pc[p] = "init_push_nil"
    /\ \E e \in {NoErr, ErrSink} :
        /\ cnsCalls' = [cnsCalls EXCEPT ![p] = Append(@, NilPush(nodeNetConfig[p]))]
        /\ initErr' = [initErr EXCEPT ![p] = e]
    /\ trace' = [trace EXCEPT ![p] = Append(@, "reconcile")]
    /\ coldStartPushed' = TRUE
    /\ pc' = [pc EXCEPT ![p] = "init_ret"]
    /\ UNCHANGED <<updVars, pureVars, rcState, mtcState, halted, nodeNetConfig, ncRequest, pods, err, ctxDone, ret,
                   initReturnedOK, startFlags>>

(* ncRequest, err = CRDStatusToNCRequest(nodeNetConfig.Status) *)
initCNS_Translate(p) ==
    /\ Alive /\ pc[p] = "init_translate"
    /\ LET r == CRDStatusToNCRequest(nodeNetConfig[p])
       IN  /\ ncRequest' = [ncRequest EXCEPT ![p] = r[1]]
           /\ initErr' = [initErr EXCEPT ![p] = r[2]]
           /\ pc' = [pc EXCEPT ![p] = IF r[2] # NoErr THEN "init_ret" ELSE "init_list"]
    /\ trace' = [trace EXCEPT ![p] = Append(@, "translate")]
    /\ UNCHANGED <<updVars, pureVars, rcState, mtcState, halted, nodeNetConfig, pods, err, ctxDone, ret, cnsCalls,
                   history, startFlags>>

(* pods, err = rc.getAllPods(ctx, rc.nodeName) *)
initCNS_ListPods(p) ==
    /\ Alive /\ pc[p] = "init_list"
    /\ \E a \in ListPodsAnswers :
        LET r == getAllPods(a[1], a[2])
        IN  /\ pods' = [pods EXCEPT ![p] = r[1]]
            /\ err' = [err EXCEPT ![p] = r[2]]
            /\ initErr' = [initErr EXCEPT ![p] = r[2]]
            /\ pc' = [pc EXCEPT ![p] = IF r[2] # NoErr THEN "init_ret" ELSE "init_reconcile"]
    /\ trace' = [trace EXCEPT ![p] = Append(@, "list")]
    /\ UNCHANGED <<updVars, pureVars, rcState, mtcState, halted, nodeNetConfig, ncRequest, ctxDone, ret, cnsCalls,
                   history, startFlags>>

(* the arguments of ReconcileNCState on the full path *)
FullPush(req, list, nnc) ==
    [req |-> req, podInfoByIP |-> BuildPodInfoByIP(list), scaler |-> nnc.scaler, spec |-> nnc.spec]

(* the pod map is built and pushed with the request, the scaler and the    *)
(* spec; the pod list is not read again after the loop                     *)
initCNS_Reconcile(p) ==
    /\ Alive /\ pc[p] = "init_reconcile"
    /\ \E e \in {NoErr, ErrSink} :
        /\ cnsCalls' = [cnsCalls EXCEPT ![p] =
                          Append(@, FullPush(ncRequest[p], pods[p], nodeNetConfig[p]))]
        /\ initErr' = [initErr EXCEPT ![p] = e]
    /\ trace' = [trace EXCEPT ![p] = Append(@, "reconcile")]
    /\ pods' = [pods EXCEPT ![p] = NilPodList]
    /\ coldStartPushed' = TRUE
    /\ pc' = [pc EXCEPT ![p] = "init_ret"]
    /\ UNCHANGED <<updVars, pureVars, rcState, mtcState, halted, nodeNetConfig, ncRequest, err, ctxDone, ret,
                   initReturnedOK, startFlags>>

(* initialized set whatever initCNS returned *)
InitializedAfter_Always(e, old) == TRUE

(* initialized recorded as the outcome of the latest cold start *)
InitializedAfter_Reset(e, old) == e = NoErr

(* rc.initialized after initCNS returned e: set on success, left alone on an error *)
InitializedAfter(e, old) == IF e # NoErr THEN old ELSE TRUE

(* InitRequestController returns: initialized is set when initCNS returned *)
(* nil, the deferred Unlock runs, the caller gets the error; the locals of *)
(* initCNS are gone.                                                       *)
InitRequestController_Return(p) ==
    /\ Alive /\ pc[p] = "init_ret"
    /\ initialized' = InitializedAfter(initErr[p], initialized)
    /\ lock' = Free
    /\ ret' = [ret EXCEPT ![p] = [op |-> "Init", err |-> initErr[p], val |-> FALSE]]
    /\ initReturnedOK' = (initReturnedOK \/ initErr[p] = NoErr)
    /\ pc' = [pc EXCEPT ![p] = "done"]
    /\ nodeNetConfig' = [nodeNetConfig EXCEPT ![p] = NilNNC]
    /\ ncRequest' = [ncRequest EXCEPT ![p] = NilRequest]
    /\ pods' = [pods EXCEPT ![p] = NilPodList]
    /\ initErr' = [initErr EXCEPT ![p] = NoErr]
    /\ cnsCalls' = [cnsCalls EXCEPT ![p] = <<>>]
    /\ UNCHANGED <<updVars, pureVars, Started, mgrRuns, mtcState, halted, err, trace, ctxDone, coldStartPushed, startFlags>>

(* the caller takes the result and is free for its next call *)
Done(p) ==
    /\ Alive /\ pc[p] = "done"
    /\ pc' = [pc EXCEPT ![p] = "idle"]
    /\ err' = [err EXCEPT ![p] = NoErr]
    /\ ctxDone' = [ctxDone EXCEPT ![p] = FALSE]
    /\ ret' = [ret EXCEPT ![p] = NoRet]
    /\ trace' = [trace EXCEPT ![p] = <<>>]
    /\ invokedEarly' = [invokedEarly EXCEPT ![p] = FALSE]
    /\ gatedEarly' = [gatedEarly EXCEPT ![p] = FALSE]
    /\ updObj' = [updObj EXCEPT ![p] = NilCRD]
    /\ updSpec' = [updSpec EXCEPT ![p] = NilSpec]
    /\ kubeCalls' = [kubeCalls EXCEPT ![p] = <<>>]
    /\ UNCHANGED <<pureVars, crd, rcState, mtcState, halted, nodeNetConfig, ncRequest, pods, initErr, cnsCalls, history>>

----------------------------------------------------------------------------
(* StartRequestController and IsStarted of the request controller *)

StartRequestController_Call(p) ==
    /\ Alive /\ pc[p] = "idle"
    /\ pc' = [pc EXCEPT ![p] = "start_lock"]
    /\ invokedEarly' = [invokedEarly EXCEPT ![p] = ~initReturnedOK]
    /\ UNCHANGED <<updVars, pureVars, rcState, mtcState, halted, initLocals, err, ctxDone, ret, history, gatedEarly>>

(* rc.lock.Lock() of StartRequestController *)
StartRequestController_Lock(p) ==
    /\ Alive /\ pc[p] = "start_lock" /\ lock = Free
    /\ lock' = p
    /\ gatedEarly' = [gatedEarly EXCEPT ![p] = ~initReturnedOK]
    /\ pc' = [pc EXCEPT ![p] = "start_gate"]
    /\ UNCHANGED <<updVars, pureVars, initialized, Started, mgrRuns, mtcState, halted, initLocals, err, ctxDone, ret,
                   history, invokedEarly>>

(* a start operation without the gate *)
StartRefused_NoGate == FALSE

(* the gate of StartRequestController: if !rc.initialized *)
StartRefused == ~initialized

(* Started recorded before the gate is looked at *)
StartedAfterGate_Always(refused, old) == TRUE

(* rc.Started after the gate: set only when the start was not refused *)
StartedAfterGate(refused, old) == IF refused THEN old ELSE TRUE

(* a start operation that releases the lock with a deferred Unlock *)
LockAfterGate_Deferred(refused, holder) == IF refused THEN Free ELSE holder

(* rc.lock.Unlock() on both branches of the gate, before the manager is run *)
LockAfterGate(refused, holder) == Free

(* under the lock: refuse when not initialized, else record Started; unlock *)
StartRequestController_Gate(p) ==
    /\ Alive /\ pc[p] = "start_gate"
    /\ IF StartRefused
       THEN /\ ret' = [ret EXCEPT ![p] = [op |-> "Start", err |-> ErrNotInitialized, val |-> FALSE]]
            /\ pc' = [pc EXCEPT ![p] = "done"]
       ELSE /\ pc' = [pc EXCEPT ![p] = "start_run"]
            /\ UNCHANGED ret
    /\ Started' = StartedAfterGate(StartRefused, Started)
    /\ lock' = LockAfterGate(StartRefused, p)
    /\ UNCHANGED <<updVars, pureVars, initialized, mgrRuns, mtcState, halted, initLocals, err, ctxDone, history, startFlags>>

(* rc.mgr.Start(ctx.Done()) is entered; it blocks *)
StartRequestController_Run(p) ==
    /\ Alive /\ pc[p] = "start_run" /\ mgrRuns < MaxRuns
    /\ mgrRuns' = mgrRuns + 1
    /\ pc' = [pc EXCEPT ![p] = "start_running"]
    /\ UNCHANGED <<updVars, pureVars, initialized, Started, lock, mtcState, halted, initLocals, err, ctxDone, ret,
                   history, startFlags>>

(* the context handed to a start operation is cancelled *)
CtxCancel(p) ==
    /\ Alive /\ pc[p] \in {"start_running", "mt_running"} /\ ~ctxDone[p]
    /\ ctxDone' = [ctxDone EXCEPT ![p] = TRUE]
    /\ UNCHANGED <<updVars, pureVars, rcState, mtcState, halted, pc, initLocals, err, ret, history, startFlags>>

(* what the manager's run can end with: nil once the context is done, a failure at any time *)
RunOutcomes(p) == ClusterErrors \cup (IF ctxDone[p] THEN {NoErr} ELSE {})

(* what StartRequestController does with the result of the run *)
AfterRun(e) ==
    IF e # NoErr THEN
        IF isNotDefinedFaults(e) THEN "panic"
        ELSE IF isNotDefined(e) THEN "exit"
        ELSE "return_err"
    ELSE "return_nil"

(* the value StartRequestController returns for a run that ended with e *)
StartReturns(e) == IF e # NoErr THEN e ELSE NoErr

(* rc.mgr.Start returns and StartRequestController handles its result *)
StartRequestController_Return(p) ==
    /\ Alive /\ pc[p] = "start_running"
    /\ \E e \in RunOutcomes(p) :
        /\ err' = [err EXCEPT ![p] = e]
        /\ IF AfterRun(e) \in {"panic", "exit"}
           THEN /\ halted' = AfterRun(e)
                /\ UNCHANGED <<pc, ret>>
           ELSE /\ ret' = [ret EXCEPT ![p] = [op |-> "Start", err |-> StartReturns(e), val |-> FALSE]]
                /\ pc' = [pc EXCEPT ![p] = "done"]
                /\ UNCHANGED halted
    /\ UNCHANGED <<updVars, pureVars, rcState, mtcState, initLocals, ctxDone, history, startFlags>>

IsStarted_Call(p) ==
    /\ Alive /\ pc[p] = "idle"
    /\ pc' = [pc EXCEPT ![p] = "is_lock"]
    /\ UNCHANGED <<updVars, pureVars, rcState, mtcState, halted, initLocals, err, ctxDone, ret, history, startFlags>>

(* rc.lock.Lock() of IsStarted *)
IsStarted_Lock(p) ==
    /\ Alive /\ pc[p] = "is_lock" /\ lock = Free
    /\ lock' = p
    /\ pc' = [pc EXCEPT ![p] = "is_read"]
    /\ UNCHANGED <<updVars, pureVars, initialized, Started, mgrRuns, mtcState, halted, initLocals, err, ctxDone, ret,
                   history, startFlags>>

(* an accessor that reports the other flag *)
IsStartedResult_Initialized == initialized

(* return rc.Started *)
IsStartedResult == Started

(* return rc.Started, then the deferred Unlock *)
IsStarted_Return(p) ==
    /\ Alive /\ pc[p] = "is_read"
    /\ ret' = [ret EXCEPT ![p] = [op |-> "IsStarted", err |-> NoErr, val |-> IsStartedResult]]
    /\ lock' = Free
    /\ pc' = [pc EXCEPT ![p] = "done"]
    /\ UNCHANGED <<updVars, pureVars, initialized, Started, mgrRuns, mtcState, halted, initLocals, err, ctxDone,
                   history, startFlags>>

----------------------------------------------------------------------------
(* The multi-tenant controller *)

StartMultiTenantController_Call(p) ==
    /\ Alive /\ pc[p] = "idle"
    /\ pc' = [pc EXCEPT ![p] = "mt_lock"]
    /\ UNCHANGED <<updVars, pureVars, rcState, mtcState, halted, initLocals, err, ctxDone, ret, history, startFlags>>

(* mtc.lock.Lock() of StartMultiTenantController *)
StartMultiTenantController_Lock(p) ==
    /\ Alive /\ pc[p] = "mt_lock" /\ mtcLock = Free
    /\ mtcLock' = p
    /\ pc' = [pc EXCEPT ![p] = "mt_set"]
    /\ UNCHANGED <<updVars, pureVars, rcState, mtcStarted, mtcMgrRuns, halted, initLocals, err, ctxDone, ret, history,
                   startFlags>>

(* mtc.Started = true; mtc.lock.Unlock() *)
StartMultiTenantController_SetStarted(p) ==
    /\ Alive /\ pc[p] = "mt_set"
    /\ mtcStarted' = TRUE
    /\ mtcLock' = Free
    /\ pc' = [pc EXCEPT ![p] = "mt_run"]
    /\ UNCHANGED <<updVars, pureVars, rcState, mtcMgrRuns, halted, initLocals, err, ctxDone, ret, history, startFlags>>

(* mtc.mgr.Start(ctx.Done()) is entered; it blocks *)
StartMultiTenantController_Run(p) ==
    /\ Alive /\ pc[p] = "mt_run" /\ mtcMgrRuns < MaxRuns
    /\ mtcMgrRuns' = mtcMgrRuns + 1
    /\ pc' = [pc EXCEPT ![p] = "mt_running"]
    /\ UNCHANGED <<updVars, pureVars, rcState, mtcStarted, mtcLock, halted, initLocals, err, ctxDone, ret, history,
                   startFlags>>

(* what StartMultiTenantController does with the result of the run *)
mtcAfterRun(e) ==
    IF e # NoErr THEN
        IF mtcIsNotDefinedFaults(e) THEN "panic"
        ELSE IF mtcIsNotDefined(e) THEN "exit"
        ELSE "return_err"
    ELSE "return_nil"

(* the value StartMultiTenantController returns for a run that ended with e *)
mtcStartReturns(e) == IF e # NoErr THEN e ELSE NoErr

(* mtc.mgr.Start returns and StartMultiTenantController handles its result *)
StartMultiTenantController_Return(p) ==
    /\ Alive /\ pc[p] = "mt_running"
    /\ \E e \in RunOutcomes(p) :
        /\ err' = [err EXCEPT ![p] = e]
        /\ IF mtcAfterRun(e) \in {"panic", "exit"}
           THEN /\ halted' = mtcAfterRun(e)
                /\ UNCHANGED <<pc, ret>>
           ELSE /\ ret' = [ret EXCEPT ![p] = [op |-> "MtStart", err |-> mtcStartReturns(e), val |-> FALSE]]
                /\ pc' = [pc EXCEPT ![p] = "done"]
                /\ UNCHANGED halted
    /\ UNCHANGED <<updVars, pureVars, rcState, mtcState, initLocals, ctxDone, history, startFlags>>

mtcIsStarted_Call(p) ==
    /\ Alive /\ pc[p] = "idle"
    /\ pc' = [pc EXCEPT ![p] = "mtis_lock"]
    /\ UNCHANGED <<updVars, pureVars, rcState, mtcState, halted, initLocals, err, ctxDone, ret, history, startFlags>>

(* mtc.lock.Lock() of IsStarted *)
mtcIsStarted_Lock(p) ==
    /\ Alive /\ pc[p] = "mtis_lock" /\ mtcLock = Free
    /\ mtcLock' = p
    /\ pc' = [pc EXCEPT ![p] = "mtis_read"]
    /\ UNCHANGED <<updVars, pureVars, rcState, mtcStarted, mtcMgrRuns, halted, initLocals, err, ctxDone, ret, history,
                   startFlags>>

(* return mtc.Started, then the deferred Unlock *)
mtcIsStarted_Return(p) ==
    /\ Alive /\ pc[p] = "mtis_read"
    /\ ret' = [ret EXCEPT ![p] = [op |-> "MtIsStarted", err |-> NoErr, val |-> mtcStarted]]
    /\ mtcLock' = Free
    /\ pc' = [pc EXCEPT ![p] = "done"]
    /\ UNCHANGED <<updVars, pureVars, rcState, mtcStarted, mtcMgrRuns, halted, initLocals, err, ctxDone, history,
                   startFlags>>

----------------------------------------------------------------------------
(* UpdateCRDSpec *)

UpdateCRDSpec_Call(p) ==
    /\ Alive /\ pc[p] = "idle"
    /\ \E s \in CrdSpecs : updSpec' = [updSpec EXCEPT ![p] = s]
    /\ pc' = [pc EXCEPT ![p] = "upd_get"]
    /\ UNCHANGED <<pureVars, rcState, mtcState, halted, initLocals, err, ctxDone, ret, history, startFlags,
                   crd, updObj, kubeCalls>>

(* nodeNetworkConfig, err := rc.getNodeNetConfig(...); an error is returned *)
UpdateCRDSpec_Get(p) ==
    /\ Alive /\ pc[p] = "upd_get"
    /\ \E a \in KubeGetAnswers(crd) :
        LET r == getNodeNetConfig(a[1], a[2])
        IN  /\ kubeCalls' = [kubeCalls EXCEPT ![p] =
                                Append(@, [op |-> "Get", obj |-> r[1], err |-> r[2]])]
            /\ IF r[2] # NoErr
               THEN /\ ret' = [ret EXCEPT ![p] = [op |-> "Update", err |-> r[2], val |-> FALSE]]
                    /\ pc' = [pc EXCEPT ![p] = "done"]
                    /\ UNCHANGED updObj
               ELSE /\ updObj' = [updObj EXCEPT ![p] = r[1]]
                    /\ pc' = [pc EXCEPT ![p] = "upd_update"]
                    /\ UNCHANGED ret
    /\ UNCHANGED <<pureVars, rcState, mtcState, halted, initLocals, err, ctxDone, history, startFlags, crd,
                   updSpec>>

(* an update that answers a conflict by reading and writing again *)
AfterUpdate_RetryOnConflict(e) ==
    IF e = ErrConflict THEN "retry"
    ELSE IF e # NoErr THEN "return_err"
    ELSE "return_nil"

(* what UpdateCRDSpec does with the result of updateNodeNetConfig *)
AfterUpdate(e) == IF e # NoErr THEN "return_err" ELSE "return_nil"

(* an update that sends a fresh object holding only the desired spec and the version *)
UpdateObject_DropStatus(obj, spec) ==
    [isNil |-> FALSE, version |-> obj.version, spec |-> DeepCopyInto(spec, obj.spec), status |-> ""]

(* the object UpdateCRDSpec sends: the one the Get filled, its Spec overwritten *)
UpdateObject(obj, spec) == [obj EXCEPT !.spec = DeepCopyInto(spec, @)]

(* the deep copy into the object read, rc.updateNodeNetConfig, and the return *)
UpdateCRDSpec_Update(p) ==
    /\ Alive /\ pc[p] = "upd_update"
    /\ LET obj == UpdateObject(updObj[p], updSpec[p])
       IN  \E a \in KubeClientUpdate(obj, crd) :
            LET e == updateNodeNetConfig(a[2])
            IN  /\ crd' = a[1]
                /\ kubeCalls' = [kubeCalls EXCEPT ![p] =
                                    Append(@, [op |-> "Update", obj |-> obj, err |-> a[2]])]
                /\ IF AfterUpdate(e) = "retry"
                   THEN /\ pc' = [pc EXCEPT ![p] = "upd_get"]
                        /\ UNCHANGED ret
                   ELSE /\ ret' = [ret EXCEPT ![p] = [op |-> "Update", err |-> e, val |-> FALSE]]
                        /\ pc' = [pc EXCEPT ![p] = "done"]
    /\ updObj' = [updObj EXCEPT ![p] = NilCRD]
    /\ UNCHANGED <<pureVars, rcState, mtcState, halted, initLocals, err, ctxDone, history, startFlags, updSpec>>

(* another writer (the cluster's control plane, an operator) stores a new  *)
(* spec and status of the node's resource                                  *)
OtherWriter ==
    /\ Alive /\ crd.version < MaxVersion
    /\ \E s \in CrdSpecs, st \in CrdStatuses :
        /\ <<s, st>> # <<crd.spec, crd.status>>
        /\ crd' = [crd EXCEPT !.version = @ + 1, !.spec = s, !.status = st]
    /\ UNCHANGED <<pureVars, rcState, mtcState, halted, pc, initLocals, err, ctxDone, ret, history, startFlags,
                   updObj, updSpec, kubeCalls>>

----------------------------------------------------------------------------
(* Calls into the filter package and of the classifiers *)

(* a caller is about to convert a list of states and to filter a map *)
InitFilter ==
    /\ InitControllers /\ ClassifierIdle /\ CtorIdle /\ TelemetryIdle
    /\ fpc = "states"
    /\ fStates \in SeqsUpTo(AnyIPConfigStates, MaxStates)
    /\ fIn \in IPConfigMaps
    /\ fPreds = NilPredicates /\ fOut = NilPredicates

(* predicates := PredicatesForStates(states...) *)
PredicatesForStates_Apply ==
    /\ fpc = "states"
    /\ fPreds' = PredicatesForStates(fStates)
    /\ fpc' = "match"
    /\ UNCHANGED <<rcState, mtcState, halted, pc, initLocals, err, ctxDone, ret, history, startFlags,
                   updVars, classVars, ctorVars, telVars, fStates, fIn, fOut>>

(* out := MatchAnyIPConfigState(in, predicates...) *)
MatchAnyIPConfigState_Apply ==
    /\ fpc = "match"
    /\ \E ord \in RangeOrders(DOMAIN fIn) : fOut' = MatchAnyIPConfigState(fIn, fPreds.items, ord)
    /\ fpc' = "matched"
    /\ UNCHANGED <<rcState, mtcState, halted, pc, initLocals, err, ctxDone, ret, history, startFlags,
                   updVars, classVars, ctorVars, telVars, fStates, fIn, fPreds>>

NextFilter == PredicatesForStates_Apply \/ MatchAnyIPConfigState_Apply

SpecFilter == InitFilter /\ [][NextFilter]_vars

(* an error is about to be classified by both controllers *)
InitClassifier ==
    /\ InitControllers /\ FilterIdle /\ CtorIdle /\ TelemetryIdle
    /\ cErr \in ClassifierInputs
    /\ cOut = "none" /\ cMtcOut = "none"

(* rc.isNotDefined(err) *)
isNotDefined_Apply ==
    /\ cOut = "none"
    /\ cOut' = isNotDefinedOutcome(cErr)
    /\ UNCHANGED <<rcState, mtcState, halted, pc, initLocals, err, ctxDone, ret, history, startFlags,
                   updVars, filterVars, ctorVars, telVars, cErr, cMtcOut>>

(* mtc.isNotDefined(err) *)
mtcIsNotDefined_Apply ==
    /\ cMtcOut = "none"
    /\ cMtcOut' = mtcIsNotDefinedOutcome(cErr)
    /\ UNCHANGED <<rcState, mtcState, halted, pc, initLocals, err, ctxDone, ret, history, startFlags,
                   updVars, filterVars, ctorVars, telVars, cErr, cOut>>

NextClassifier == isNotDefined_Apply \/ mtcIsNotDefined_Apply

SpecClassifier == InitClassifier /\ [][NextClassifier]_vars

----------------------------------------------------------------------------
(* Calls of the constructors *)

(* a constructor is about to be called in some environment *)
InitCtor ==
    /\ InitControllers /\ FilterIdle /\ ClassifierIdle /\ TelemetryIdle
    /\ ctorEnv \in CtorEnvs
    /\ rcNew = NotCalled /\ mtcNew = NotCalled

NewCrdRequestController_Apply ==
    /\ ~rcNew.called
    /\ rcNew' = NewCrdRequestController(ctorEnv)
    /\ UNCHANGED <<rcState, mtcState, halted, pc, initLocals, err, ctxDone, ret, history, startFlags,
                   updVars, filterVars, classVars, telVars, ctorEnv, mtcNew>>

NewMultiTenantController_Apply ==
    /\ ~mtcNew.called
    /\ mtcNew' = NewMultiTenantController(ctorEnv)
    /\ UNCHANGED <<rcState, mtcState, halted, pc, initLocals, err, ctxDone, ret, history, startFlags,
                   updVars, filterVars, classVars, telVars, ctorEnv, rcNew>>

NextCtor == NewCrdRequestController_Apply \/ NewMultiTenantController_Apply

SpecCtor == InitCtor /\ [][NextCtor]_vars

----------------------------------------------------------------------------
(* The goroutine of SendToTelemetryService *)

(* go SendToTelemetryService(ctx, reports) has been started *)
InitTelemetry ==
    /\ InitControllers /\ FilterIdle /\ ClassifierIdle /\ CtorIdle
    /\ tpc = "connect" /\ tbConnected = FALSE /\ tbClosed = FALSE /\ tctxDone = FALSE
    /\ taken = 0 /\ writes = 0 /\ connects = 0 /\ report = EmptyReport /\ reportState = FALSE

(* CONNECT: a new buffer, ConnectToTelemetryService; when it is connected  *)
(* a new report manager is made, otherwise the function ends               *)
SendToTelemetryService_Connect ==
    /\ tpc = "connect" /\ connects < MaxConnects
    /\ connects' = connects + 1
    /\ tbClosed' = FALSE
    /\ \E ok \in BOOLEAN :
        /\ tbConnected' = ok
        /\ tpc' = IF ok THEN "select" ELSE "returned"
        /\ report' = IF ok THEN EmptyReport ELSE report
    /\ UNCHANGED <<rcState, mtcState, halted, pc, initLocals, err, ctxDone, ret, history, startFlags,
                   updVars, filterVars, classVars, ctorVars, tctxDone, taken, writes, reportState>>

(* case <-ctx.Done(): tb.Close(); return *)
SendToTelemetryService_CtxDone ==
    /\ tpc = "select" /\ tctxDone
    /\ tbClosed' = TRUE
    /\ tpc' = "returned"
    /\ UNCHANGED <<rcState, mtcState, halted, pc, initLocals, err, ctxDone, ret, history, startFlags,
                   updVars, filterVars, classVars, ctorVars, tbConnected, tctxDone, taken, writes,
                   connects, report, reportState>>

(* case msg := <-reports: msg.(string) faults on another type; otherwise  *)
(* the fields of the report are set from the message                       *)
SendToTelemetryService_Receive ==
    /\ tpc = "select" /\ taken < MaxReports
    /\ taken' = taken + 1
    /\ \E msg \in Messages :
        IF ~msg.isString
        THEN /\ tpc' = "panic"
             /\ UNCHANGED report
        ELSE /\ tpc' = "state"
             /\ report' = SetReportFields(report, msg)
    /\ UNCHANGED <<rcState, mtcState, halted, pc, initLocals, err, ctxDone, ret, history, startFlags,
                   updVars, filterVars, classVars, ctorVars, tbConnected, tbClosed, tctxDone, writes,
                   connects, reportState>>

(* if !reportMgr.GetReportState(file) { reportMgr.SetReportState(file) }:  *)
(* the result of SetReportState is not looked at, the file may be missing  *)
(* afterwards as well                                                      *)
SendToTelemetryService_ReportState ==
    /\ tpc = "state"
    /\ tpc' = "write"
    /\ \E created \in BOOLEAN : reportState' = (reportState \/ created)
    /\ UNCHANGED <<rcState, mtcState, halted, pc, initLocals, err, ctxDone, ret, history, startFlags,
                   updVars, filterVars, classVars, ctorVars, tbConnected, tbClosed, tctxDone, taken,
                   writes, connects, report>>

(* report, err := reportMgr.ReportToBytes(); when err == nil the bytes are *)
(* written; a failed write closes the buffer and goes back to CONNECT      *)
SendToTelemetryService_Write ==
    /\ tpc = "write"
    /\ \E bytesOK \in BOOLEAN, writeOK \in BOOLEAN :
        IF ~bytesOK
        THEN /\ tpc' = "select"
             /\ UNCHANGED <<writes, tbClosed>>
        ELSE /\ writes' = writes + 1
             /\ tpc' = IF writeOK THEN "select" ELSE "connect"
             /\ tbClosed' = ~writeOK
    /\ UNCHANGED <<rcState, mtcState, halted, pc, initLocals, err, ctxDone, ret, history, startFlags,
                   updVars, filterVars, classVars, ctorVars, tbConnected, tctxDone, taken, connects,
                   report, reportState>>

(* the owner of the context cancels it *)
TelemetryCtxCancel ==
    /\ tpc \in {"connect", "select", "state", "write"} /\ ~tctxDone
    /\ tctxDone' = TRUE
    /\ UNCHANGED <<rcState, mtcState, halted, pc, initLocals, err, ctxDone, ret, history, startFlags,
                   updVars, filterVars, classVars, ctorVars, tpc, tbConnected, tbClosed, taken, writes,
                   connects, report, reportState>>

NextTelemetry ==
    \/ SendToTelemetryService_Connect \/ SendToTelemetryService_CtxDone
    \/ SendToTelemetryService_Receive \/ SendToTelemetryService_ReportState
    \/ SendToTelemetryService_Write \/ TelemetryCtxCancel

SpecTelemetry == InitTelemetry /\ [][NextTelemetry]_vars

----------------------------------------------------------------------------

Next ==
    \E p \in Callers :
        \/ InitRequestController_Call(p) \/ InitRequestController_Lock(p) \/ initCNS_Get(p) \/ initCNS_PanicEnds(p) \/ initCNS_ReconcileNil(p) \/ initCNS_Translate(p)
        \/ initCNS_ListPods(p) \/ initCNS_Reconcile(p) \/ InitRequestController_Return(p) \/ Done(p)
        \/ StartRequestController_Call(p) \/ StartRequestController_Lock(p) \/ StartRequestController_Gate(p) \/ StartRequestController_Run(p) \/ CtxCancel(p) \/ StartRequestController_Return(p)
        \/ IsStarted_Call(p) \/ IsStarted_Lock(p) \/ IsStarted_Return(p)
        \/ StartMultiTenantController_Call(p) \/ StartMultiTenantController_Lock(p) \/ StartMultiTenantController_SetStarted(p) \/ StartMultiTenantController_Run(p) \/ StartMultiTenantController_Return(p)
        \/ mtcIsStarted_Call(p) \/ mtcIsStarted_Lock(p) \/ mtcIsStarted_Return(p)

Spec == Init /\ [][Next]_vars

(* Scheduling.  A goroutine that can go on is run, and the calls it waits  *)
(* in (API server, CNS) come back.  sync.Mutex hands the lock to a waiter  *)
(* that has waited long, so an IsStarted whose Lock could succeed again    *)
(* and again does get the lock.  How long the manager runs is left open.   *)
Fairness ==
    \A p \in Callers :
        /\ WF_vars(\/ initCNS_Get(p) \/ initCNS_PanicEnds(p) \/ initCNS_ReconcileNil(p)
                   \/ initCNS_Translate(p) \/ initCNS_ListPods(p) \/ initCNS_Reconcile(p)
                   \/ InitRequestController_Return(p) \/ StartRequestController_Gate(p)
                   \/ IsStarted_Return(p) \/ StartMultiTenantController_SetStarted(p)
                   \/ mtcIsStarted_Return(p))
        /\ SF_vars(IsStarted_Lock(p)) /\ SF_vars(mtcIsStarted_Lock(p))

SpecFair == Spec /\ Fairness

(* both controllers with all their operations, and the other writer of the resource *)
NextAll ==
    \/ Next
    \/ \E p \in Callers : UpdateCRDSpec_Call(p) \/ UpdateCRDSpec_Get(p) \/ UpdateCRDSpec_Update(p)
    \/ OtherWriter

SpecAll == Init /\ [][NextAll]_vars

(* UpdateCRDSpec callers and the other writer of the resource *)
NextUpdate ==
    \/ \E p \in Callers : UpdateCRDSpec_Call(p) \/ UpdateCRDSpec_Get(p) \/ UpdateCRDSpec_Update(p) \/ Done(p)
    \/ OtherWriter

SpecUpdate == Init /\ [][NextUpdate]_vars

TypeOK ==
    /\ initialized \in BOOLEAN /\ Started \in BOOLEAN /\ mtcStarted \in BOOLEAN
    /\ lock \in Callers \cup {Free} /\ mtcLock \in Callers \cup {Free}
    /\ halted \in {"no", "exit", "panic"}
    /\ mgrRuns \in 0..MaxRuns /\ mtcMgrRuns \in 0..MaxRuns

----------------------------------------------------------------------------
(* Properties *)

InStart(p) == pc[p] \in {"start_lock", "start_gate", "start_run", "start_running"}
InRunLoop(p) == pc[p] \in {"start_run", "start_running"}
Returned(p, op) == pc[p] = "done" /\ ret[p].op = op

(* C1, as stated: a StartRequestController call invoked before any         *)
(* InitRequestController call has returned nil returns an error and never  *)
(* runs the watch manager; one invoked after Init returned nil is not      *)
(* refused.                                                                *)
C1_StartInvokedBeforeInitFails ==
    \A p \in Callers :
        /\ invokedEarly[p] =>
            /\ ~InRunLoop(p)
            /\ (Returned(p, "Start") => ret[p].err = ErrNotInitialized)
        /\ (Returned(p, "Start") /\ ~invokedEarly[p]) => ret[p].err # ErrNotInitialized

(* C1, amended: a StartRequestController call that takes the lock before   *)
(* any InitRequestController call has returned nil returns the             *)
(* not-initialized error and never runs the watch manager; one that takes  *)
(* the lock after Init returned nil (so every one invoked after it) is not *)
(* refused.                                                                *)
C1_StartGatedBeforeInitFails ==
    \A p \in Callers :
        /\ gatedEarly[p] =>
            /\ ~InRunLoop(p)
            /\ (Returned(p, "Start") => ret[p].err = ErrNotInitialized)
        /\ (Returned(p, "Start") /\ ~gatedEarly[p]) => ret[p].err # ErrNotInitialized
        /\ (InStart(p) /\ ~invokedEarly[p]) => ~gatedEarly[p]

(* a start was refused at the gate while the other caller's Init was still waiting for the lock *)
C1_Witness ==
    \E p, q \in Callers :
        /\ Returned(p, "Start") /\ gatedEarly[p] /\ ret[p].err = ErrNotInitialized
        /\ pc[q] = "init_lock"

(* C2: whenever the watch manager's loop has been entered, a cold-start    *)
(* ReconcileNCState invocation has been made and has returned.             *)
C2_ColdStartPushPrecedesWatch == mgrRuns > 0 => coldStartPushed

(* C3: when the direct read fails with an error that is neither "kind not  *)
(* defined" nor not-found, InitRequestController returns that error,       *)
(* ReconcileNCState is not invoked and initialized stays as it was.        *)
C3_OtherReadErrorPropagates ==
    [][\A p \in Callers :
        (/\ pc[p] = "init_ret" /\ pc'[p] = "done"
         /\ trace[p] = <<"get">> /\ err[p] # NoErr /\ ~IsNotFound(err[p]))
        => /\ ret'[p].err = err[p]
           /\ cnsCalls[p] = <<>>
           /\ initialized' = initialized]_vars

(* C4: when the direct read reports the instance absent, InitRequestController *)
(* invokes ReconcileNCState exactly once, with a nil request and a nil pod *)
(* map, and returns no error.                                              *)
C4_NotFoundPushesNil ==
    \A p \in Callers :
        (pc[p] = "init_ret" /\ trace[p][1] = "get" /\ IsNotFound(err[p]))
        => /\ Len(cnsCalls[p]) = 1
           /\ cnsCalls[p][1].req.isNil
           /\ cnsCalls[p][1].podInfoByIP.isNil
           /\ initErr[p] = NoErr

(* C5: when the direct read succeeds and the status holds no network      *)
(* container, the Init call invokes ReconcileNCState exactly once, with a  *)
(* nil request, a nil pod map and the resource's scaler and spec, without  *)
(* translating or listing pods; when the sink succeeds initialized is true *)
(* once the call has returned.                                             *)
C5_ZeroContainersPushNilOnce ==
    \A p \in Callers :
        /\ (/\ pc[p] = "init_ret" /\ err[p] = NoErr
            /\ ~nodeNetConfig[p].isNil /\ nodeNetConfig[p].ncs = <<>>)
           => /\ cnsCalls[p] = << [req |-> NilRequest, podInfoByIP |-> NilMap,
                                   scaler |-> nodeNetConfig[p].scaler,
                                   spec |-> nodeNetConfig[p].spec] >>
              /\ trace[p] = <<"get", "reconcile">>
        /\ (Returned(p, "Init") /\ trace[p] = <<"get", "reconcile">> /\ ret[p].err = NoErr)
           => initialized

(* a zero-container resource with the second configuration has been pushed and the sink succeeded *)
C5_Witness ==
    \E p \in Callers :
        /\ pc[p] = "init_ret" /\ err[p] = NoErr /\ initErr[p] = NoErr
        /\ ~nodeNetConfig[p].isNil /\ nodeNetConfig[p].ncs = <<>>
        /\ Len(cnsCalls[p]) = 1 /\ cnsCalls[p][1].scaler = "scalerB"

(* the indices of the listed pods that are not on the host network *)
PodNetworkPods(items) == {i \in 1..Len(items) : ~items[i].hostNetwork}

(* C6: on the full path the Init call invokes ReconcileNCState exactly     *)
(* once, with a non-nil request and a pod map whose keys are exactly the   *)
(* IPs of the listed pods that are not on the host network, each mapped to *)
(* the name and namespace of such a pod with that IP.                      *)
C6_PodMapExcludesHostNetwork ==
    [][\A p \in Callers :
        (pc[p] = "init_reconcile" /\ pc'[p] = "init_ret")
        => LET items == pods[p].items
               calls == cnsCalls'[p]
               m == calls[1].podInfoByIP.m
           IN  /\ Len(calls) = 1
               /\ ~calls[1].req.isNil
               /\ DOMAIN m = {items[i].ip : i \in PodNetworkPods(items)}
               /\ \A k \in DOMAIN m :
                    \E i \in PodNetworkPods(items) :
                        /\ items[i].ip = k
                        /\ m[k] = [PodName |-> items[i].name, PodNamespace |-> items[i].namespace]]_vars

(* pods were listed, all of them on the host network: the map pushed is made but empty *)
C6_Witness ==
    \E p \in Callers :
        /\ pc[p] = "init_ret" /\ trace[p] = <<"get", "translate", "list", "reconcile">>
        /\ Len(cnsCalls[p]) = 1
        /\ ~cnsCalls[p][1].req.isNil
        /\ ~cnsCalls[p][1].podInfoByIP.isNil
        /\ DOMAIN cnsCalls[p][1].podInfoByIP.m = {}

(* the status read holds a container the translator rejects *)
Malformed(nnc) == \E i \in 1..Len(nnc.ncs) : nnc.ncs[i].malformed

(* C7: when the translation fails, InitRequestController returns the       *)
(* translation error, has listed no pods and invoked no ReconcileNCState,  *)
(* and leaves initialized as it was.                                       *)
C7_TranslationErrorAborts ==
    [][\A p \in Callers :
        (pc[p] = "init_ret" /\ pc'[p] = "done" /\ Malformed(nodeNetConfig[p]))
        => /\ ret'[p].err = ErrTranslation
           /\ trace[p] = <<"get", "translate">>
           /\ cnsCalls[p] = <<>>
           /\ initialized' = initialized]_vars

(* a first Init attempt returned the translation error and the controller is not initialized *)
C7_Witness ==
    \E p \in Callers :
        /\ Returned(p, "Init") /\ ret[p].err = ErrTranslation
        /\ trace[p] = <<"get", "translate">>
        /\ ~initialized

(* the error the caller got is classified "not defined" by the classifier of the controller it is in *)
ClassifiedNotDefined(p) ==
    /\ err[p] # NoErr
    /\ IF pc[p] = "mt_running" \/ Returned(p, "MtStart")
       THEN ~mtcIsNotDefinedFaults(err[p]) /\ mtcIsNotDefined(err[p])
       ELSE ~isNotDefinedFaults(err[p]) /\ isNotDefined(err[p])

(* C8: whenever an error is classified "kind not defined" (at the direct   *)
(* read of the cold start, at the end of the request controller's run, at  *)
(* the end of the multi-tenant controller's run), the process has exited   *)
(* and the call has not returned; at the cold start no ReconcileNCState    *)
(* was invoked and the call has not set initialized.                       *)
C8_NotDefinedIsFatal ==
    \A p \in Callers :
        ClassifiedNotDefined(p)
        => /\ halted = "exit"
           /\ pc[p] \in {"init_get", "start_running", "mt_running"}
           /\ ret[p] = NoRet
           /\ cnsCalls[p] = <<>>
           /\ pc[p] = "init_get" => (trace[p] = <<"get">> /\ (initialized => initReturnedOK))

(* the cold-start read answered "kind not defined" and the process exited *)
C8_Witness ==
    \E p \in Callers :
        /\ halted = "exit" /\ pc[p] = "init_get" /\ err[p] = ErrKindNotDefined
        /\ lock = p /\ ~initialized

(* C9: a start operation returns nil only when its context was cancelled;  *)
(* a run failure that is not classified "kind not defined" does not end    *)
(* the process and is returned as it is.                                   *)
C9_OtherRunFailuresReturned ==
    \A p \in Callers :
        /\ ((Returned(p, "Start") \/ Returned(p, "MtStart")) /\ ret[p].err = NoErr) => ctxDone[p]
        /\ (pc[p] \in {"start_running", "mt_running"} /\ err[p] # NoErr) => ClassifiedNotDefined(p)
        /\ (Returned(p, "Start") /\ ret[p].err # ErrNotInitialized) => ret[p].err = err[p]
        /\ Returned(p, "MtStart") => ret[p].err = err[p]

(* C10, as stated: whenever Started is true the watch manager's run loop   *)
(* has been entered.                                                       *)
C10_StartedOnlyAfterRunEntered ==
    /\ Started => mgrRuns > 0
    /\ mtcStarted => mtcMgrRuns > 0

(* C10, amended: Started is recorded right before the watch manager is     *)
(* run: whenever Started is true the run loop has been entered or a caller *)
(* that passed the gate stands between the unlock and the call of the      *)
(* manager; and the run loop is never entered while Started is false.      *)
C10_StartedAtLatestWhenRunEntered ==
    /\ Started => (mgrRuns > 0 \/ \E p \in Callers : pc[p] = "start_run")
    /\ mgrRuns > 0 => Started
    /\ mtcStarted => (mtcMgrRuns > 0 \/ \E p \in Callers : pc[p] = "mt_run")
    /\ mtcMgrRuns > 0 => mtcStarted

(* Started is already true and the manager has not been called yet *)
C10_Witness ==
    /\ Started /\ mgrRuns = 0
    /\ \E p \in Callers : pc[p] = "start_run"

(* the caller is inside initCNS, between the lock and the return of InitRequestController *)
InColdStart(p) ==
    pc[p] \in {"init_get", "init_push_nil", "init_translate", "init_list", "init_reconcile"}

(* C11: in every reachable state of the request controller, whatever the   *)
(* interleaving of Init, Start, IsStarted and UpdateCRDSpec calls, Started *)
(* implies initialized, and the watch manager is run (or about to be run   *)
(* by a caller past the gate) only when initialized is true.               *)
C11_StartedImpliesInitialized ==
    /\ Started => initialized
    /\ mgrRuns > 0 => initialized
    /\ \A p \in Callers : InRunLoop(p) => initialized

(* the watch loop runs on an initialized, started controller while the other caller is inside UpdateCRDSpec *)
C11_Witness ==
    \E p, q \in Callers :
        /\ pc[p] = "start_running" /\ pc[q] = "upd_update"
        /\ Started /\ initialized

(* C12: initialized and Started (of either controller) never go back from  *)
(* true to false, whatever step is taken: a later Init that fails, a run   *)
(* that returns an error, a clean cancellation; and an IsStarted that      *)
(* reads after Started was set returns true.                               *)
C12_LifecycleNeverRegresses ==
    [][/\ initialized => initialized'
       /\ Started => Started'
       /\ mtcStarted => mtcStarted'
       /\ \A p \in Callers :
            /\ (pc[p] = "is_read" /\ pc'[p] = "done" /\ mgrRuns > 0) => ret'[p].val
            /\ (pc[p] = "mtis_read" /\ pc'[p] = "done" /\ mtcMgrRuns > 0) => ret'[p].val]_vars

(* after a clean cancellation of the watch loop a later Init has failed, and the controller is *)
(* still initialized and started                                                               *)
C12_Witness ==
    \E p, q \in Callers :
        /\ Returned(q, "Start") /\ ret[q].err = NoErr /\ ctxDone[q]
        /\ Returned(p, "Init") /\ ret[p].err = ErrSink
        /\ initialized /\ Started

(* C13: the lifecycle transitions are not re-entrant: the watch manager's  *)
(* run loop is entered at most once, and no InitRequestController call     *)
(* performs the cold-start sequence once the controller is initialized.    *)
C13_NoReentry ==
    /\ mgrRuns <= 1
    /\ \A p \in Callers : InColdStart(p) => ~initialized

(* C14: a caller of IsStarted never has to wait for another operation: the *)
(* lock IsStarted is about to take is free whenever another caller is in   *)
(* the cold-start sequence of InitRequestController or in the watch loop.  *)
C14_IsStartedNeverWaits ==
    \A p \in Callers :
        pc[p] = "is_lock"
        => \A q \in Callers \ {p} : (InColdStart(q) \/ pc[q] = "start_running") => lock = Free

(* C15: initialized changes only in the return step of an                  *)
(* InitRequestController call that holds the lock, Started only in the     *)
(* gate step of a StartRequestController call that holds the lock, the     *)
(* multi-tenant Started only in the step of StartMultiTenantController     *)
(* that holds its lock; the steps of IsStarted and UpdateCRDSpec change    *)
(* none of them, and IsStarted reads Started while it holds the lock.      *)
C15_FlagsWrittenUnderLockByLifecycleOps ==
    [][/\ initialized' # initialized
            => \E p \in Callers : pc[p] = "init_ret" /\ pc'[p] = "done" /\ lock = p
       /\ Started' # Started
            => \E p \in Callers : pc[p] = "start_gate" /\ pc'[p] = "start_run" /\ lock = p
       /\ mtcStarted' # mtcStarted
            => \E p \in Callers : pc[p] = "mt_set" /\ pc'[p] = "mt_run" /\ mtcLock = p
       /\ \A p \in Callers :
            /\ (pc[p] \in {"is_lock", "is_read", "mtis_lock", "mtis_read", "upd_get", "upd_update"}
                /\ pc'[p] # pc[p])
               => <<initialized', Started', mtcStarted'>> = <<initialized, Started, mtcStarted>>
            /\ (pc'[p] = "done" /\ ret'[p].op = "IsStarted" /\ pc[p] # "done")
               => (lock = p /\ ret'[p].val = Started)
            /\ (pc'[p] = "done" /\ ret'[p].op = "MtIsStarted" /\ pc[p] # "done")
               => (mtcLock = p /\ ret'[p].val = mtcStarted)]_vars

(* IsStarted holds the lock and reads true while the other caller is between the read and the *)
(* write of UpdateCRDSpec, on a started controller                                            *)
C15_Witness ==
    \E p, q \in Callers :
        /\ pc[p] = "is_read" /\ lock = p /\ Started /\ initialized
        /\ pc[q] = "upd_update"

(* C16: a returned UpdateCRDSpec call has made one Get on the cached       *)
(* client; when the Get failed it made no Update and returned the Get's    *)
(* error; otherwise it made exactly one Update, with an object that        *)
(* carries the desired spec and the version and status the Get returned,   *)
(* and it returned what the Update returned.                               *)
C16_UpdateSendsReadObjectWithDesiredSpec ==
    \A p \in Callers :
        Returned(p, "Update")
        => LET calls == kubeCalls[p]
           IN  /\ Len(calls) >= 1 /\ calls[1].op = "Get"
               /\ IF calls[1].err # NoErr
                  THEN Len(calls) = 1 /\ ret[p].err = calls[1].err
                  ELSE /\ Len(calls) = 2 /\ calls[2].op = "Update"
                       /\ calls[2].obj.spec = updSpec[p]
                       /\ calls[2].obj.version = calls[1].obj.version
                       /\ calls[2].obj.status = calls[1].obj.status
                       /\ ~calls[2].obj.isNil
                       /\ ret[p].err = calls[2].err

(* the Get returned the resource as another writer had left it (version 2, the other status), *)
(* the object sent carried just that with the desired spec, and the Update's failure was      *)
(* returned                                                                                   *)
C16_Witness ==
    \E p \in Callers :
        /\ Returned(p, "Update") /\ ret[p].err = ErrTimeout
        /\ Len(kubeCalls[p]) = 2 /\ kubeCalls[p][1].err = NoErr
        /\ kubeCalls[p][2].obj.status = "statusB" /\ kubeCalls[p][2].obj.version = 2
        /\ kubeCalls[p][2].obj.spec.RequestedIPCount = 32
        /\ kubeCalls[p][1].obj.spec.RequestedIPCount = 16

(* how many calls of the given kind the caller's UpdateCRDSpec has made *)
KubeCallCount(p, op) == Cardinality({i \in 1..Len(kubeCalls[p]) : kubeCalls[p][i].op = op})

(* C17: when the resource was changed by another writer after the Get of   *)
(* an UpdateCRDSpec call, the call's Update is refused: the call returns   *)
(* an error and the resource stays as the other writer left it; and no     *)
(* call ever makes more than one Get or more than one Update.              *)
C17_ConflictFailsWithoutRetry ==
    [][\A p \in Callers :
        /\ (pc[p] = "upd_update" /\ pc'[p] # "upd_update" /\ crd # updObj[p])
           => /\ pc'[p] = "done"
              /\ ret'[p].op = "Update" /\ ret'[p].err # NoErr
              /\ crd' = crd
        /\ Cardinality({i \in 1..Len(kubeCalls'[p]) : kubeCalls'[p][i].op = "Get"}) <= 1
        /\ Cardinality({i \in 1..Len(kubeCalls'[p]) : kubeCalls'[p][i].op = "Update"}) <= 1]_vars

(* the call read version 1, the other writer stored version 2 with a new status, the call's *)
(* Update came back with the conflict, and the resource is as the other writer left it      *)
C17_Witness ==
    \E p \in Callers :
        /\ Returned(p, "Update") /\ ret[p].err = ErrConflict
        /\ KubeCallCount(p, "Get") = 1 /\ KubeCallCount(p, "Update") = 1
        /\ kubeCalls[p][1].obj.version = 1 /\ crd.version = 2
        /\ crd.status = "statusB" /\ crd.spec # updSpec[p]

(* how often the status v occurs in the slice, and under how many keys of the map *)
OccurrencesIn(items, v) == Cardinality({i \in 1..Len(items) : items[i] = v})
KeysHolding(m, v) == Cardinality({k \in DOMAIN m : m[k] = v})

(* C18: MatchAnyIPConfigState returns, in some order, every value of the   *)
(* map whose state is the state of at least one of the predicates, as      *)
(* often as the map holds it, and nothing else; with no predicate or an    *)
(* empty map the result is an empty slice; and the predicate of the table  *)
(* for a state accepts a status exactly when the status has that state.    *)
C18_MatchAnyReturnsExactlyMatching ==
    /\ fpc = "matched"
       => /\ ~fOut.isNil
          /\ \A v \in IPConfigurationStatuses :
                OccurrencesIn(fOut.items, v)
                = IF \E j \in 1..Len(fPreds.items) : fPreds.items[j].test = v.State
                  THEN KeysHolding(fIn, v)
                  ELSE 0
          /\ (Len(fPreds.items) = 0 \/ DOMAIN fIn = {}) => fOut.items = <<>>
    /\ \A st \in IPConfigStates, v \in IPConfigurationStatuses :
          ApplyPredicate(filters[st], v) <=> (v.State = st)

(* two predicates for two states, a map of two statuses the first of which matches the second *)
(* predicate and the second the first: both are returned                                      *)
C18_Witness ==
    /\ fpc = "matched"
    /\ Len(fPreds.items) = 2 /\ DOMAIN fIn = {1, 2}
    /\ fIn[1].State = fPreds.items[2].test /\ fIn[2].State = fPreds.items[1].test
    /\ fIn[1].State # fIn[2].State
    /\ Len(fOut.items) = 2

IsKnownState(st) == st \in IPConfigStates

(* C19: PredicatesForStates returns one predicate for each element of its  *)
(* input that is one of the four states, in the order of the input, and    *)
(* none for any other element: the i-th predicate accepts exactly the      *)
(* statuses in the i-th known state of the input.                          *)
C19_UnknownStatesDropped ==
    fpc \in {"match", "matched"}
    => LET known == SelectSeq(fStates, IsKnownState)
       IN  /\ Len(fPreds.items) = Len(known)
           /\ \A i \in 1..Len(fPreds.items) :
                \A v \in IPConfigurationStatuses :
                    ApplyPredicate(fPreds.items[i], v) <=> (v.State = known[i])

(* the list (Allocated, bogus) has yielded one predicate, and the map filtered with it only *)
(* the allocated entries                                                                   *)
C19_Witness ==
    /\ fpc = "matched" /\ fStates = <<"Allocated", "bogus">>
    /\ Len(fPreds.items) = 1
    /\ DOMAIN fIn = {1, 2} /\ fIn[1].State = "Available" /\ fIn[2].State = "Allocated"
    /\ fOut.items = <<fIn[2]>>

(* the error is a not-found status error that carries an "unexpected server response" cause *)
IsKindNotFound(e) ==
    /\ e.kind = "status" /\ e.reason = "NotFound"
    /\ \E i \in 1..Len(e.causes) : e.causes[i] = CauseTypeUnexpectedServerResponse

(* C20: both classifiers answer "not defined" for a not-found status error *)
(* that carries an "unexpected server response" cause, answer "not not     *)
(* defined" for nil, for an error that is not a status error, for a status *)
(* error that is not not-found and for a not-found status error without    *)
(* that cause, and agree on every error.                                   *)
C20_FatalClassification ==
    /\ cOut # "none" => cOut = (IF IsKindNotFound(cErr) THEN "true" ELSE "false")
    /\ cMtcOut # "none" => cMtcOut = (IF IsKindNotFound(cErr) THEN "true" ELSE "false")
    /\ (cOut # "none" /\ cMtcOut # "none") => cOut = cMtcOut

(* the cold-start steps in the order the claim gives them *)
ColdStartOrder == <<"get", "translate", "list", "reconcile">>

(* t lists some of the steps of ColdStartOrder, each at most once, in that order *)
InColdStartOrder(t) ==
    \E f \in [1..Len(t) -> 1..Len(ColdStartOrder)] :
        /\ \A i \in 1..Len(t) : t[i] = ColdStartOrder[f[i]]
        /\ \A i, j \in 1..Len(t) : i < j => f[i] < f[j]

(* C22: the steps of one InitRequestController call follow the order read, *)
(* translate, list, reconcile, each at most once and starting with the     *)
(* read; and a call that returned nil (the only one that sets initialized) *)
(* has ended with a ReconcileNCState call.                                 *)
C22_ColdStartOrderAndFinalPush ==
    \A p \in Callers :
        /\ InColdStartOrder(trace[p])
        /\ (trace[p] # <<>> => trace[p][1] = "get")
        /\ (Returned(p, "Init") /\ ret[p].err = NoErr)
           => trace[p][Len(trace[p])] = "reconcile"

(* C23: an InitRequestController call whose pod listing failed, or whose   *)
(* ReconcileNCState call (with or without a request) returned an error,    *)
(* returns that error and leaves initialized as it was; every call that    *)
(* returns nil, a retry after a failure included, leaves initialized true, *)
(* and a start that finds initialized true at the gate goes on to the run. *)
C23_LateFailuresPropagate ==
    [][\A p \in Callers :
        /\ (/\ pc[p] = "init_ret" /\ pc'[p] = "done"
            /\ trace[p][Len(trace[p])] = "list" /\ err[p] # NoErr)
           => (ret'[p].err = err[p] /\ initialized' = initialized)
        /\ (/\ pc[p] = "init_ret" /\ pc'[p] = "done"
            /\ trace[p][Len(trace[p])] = "reconcile" /\ initErr[p] # NoErr)
           => (ret'[p].err = ErrSink /\ initialized' = initialized)
        /\ (pc[p] = "init_ret" /\ pc'[p] = "done" /\ initErr[p] = NoErr) => initialized'
        /\ (pc[p] = "start_gate" /\ pc'[p] # "start_gate" /\ initialized)
           => pc'[p] = "start_run"]_vars

(* a first Init has failed in the full push, the controller is not initialized, and the other *)
(* caller's Init is waiting to try again                                                     *)
C23_Witness ==
    \E p, q \in Callers :
        /\ Returned(p, "Init") /\ ret[p].err = ErrSink
        /\ trace[p] = <<"get", "translate", "list", "reconcile">>
        /\ ~initialized /\ ~initReturnedOK
        /\ pc[q] = "init_lock"

(* the places at which a caller holds the request controller's lock *)
HoldsLock(p) ==
    pc[p] \in {"init_get", "init_push_nil", "init_translate", "init_list", "init_reconcile",
               "init_ret", "start_gate", "is_read"}

(* C24: a caller that is about to run, or runs, the watch manager does not *)
(* hold its controller's lock, and whoever holds a lock is at a place from *)
(* which it goes on and releases it without taking a lock; an IsStarted    *)
(* that reads while another caller is in the run loop returns true; and an *)
(* IsStarted that waits for the lock while another caller is in the run    *)
(* loop acquires the lock and returns, as long as the process lives.       *)
C24_LockFreeDuringRun ==
    /\ [](/\ \A p \in Callers :
              /\ pc[p] \in {"start_run", "start_running"} => lock # p
              /\ pc[p] \in {"mt_run", "mt_running"} => mtcLock # p
          /\ lock # Free => HoldsLock(lock)
          /\ mtcLock # Free => pc[mtcLock] \in {"mt_set", "mtis_read"})
    /\ [][\A p \in Callers :
            /\ (pc[p] = "is_read" /\ pc'[p] = "done"
                /\ \E q \in Callers : pc[q] = "start_running") => ret'[p].val
            /\ (pc[p] = "mtis_read" /\ pc'[p] = "done"
                /\ \E q \in Callers : pc[q] = "mt_running") => ret'[p].val]_vars
    /\ \A p \in Callers :
        ((pc[p] = "is_lock" /\ \E q \in Callers : pc[q] = "start_running")
          \/ (pc[p] = "mtis_lock" /\ \E q \in Callers : pc[q] = "mt_running"))
              ~> (Returned(p, "IsStarted") \/ Returned(p, "MtIsStarted") \/ ~Alive)

(* IsStarted holds the lock and is about to return while the other caller is blocked in the run *)
C24_Witness ==
    \E p, q \in Callers :
        /\ pc[q] = "start_running" /\ pc[p] = "is_read" /\ lock = p /\ Started

(* the caller is inside InitRequestController, past its Lock *)
InInit(p) == InColdStart(p) \/ pc[p] = "init_ret"

(* C25: a caller inside InitRequestController (from the direct read to the *)
(* return) holds the lock, so no two callers are inside it at once, and no *)
(* StartRequestController reads initialized while a caller is inside it.   *)
C25_ColdStartsMutuallyExclusive ==
    \A p \in Callers :
        InInit(p)
        => /\ lock = p
           /\ \A q \in Callers \ {p} : ~InInit(q) /\ pc[q] # "start_gate"

(* a Start invoked before the Init finished is waiting for the lock the cold start holds *)
C25_Witness ==
    \E p, q \in Callers :
        /\ pc[p] = "init_reconcile" /\ lock = p
        /\ pc[q] = "start_lock" /\ invokedEarly[q]

(* C26: each classifier returns true or false for every error and never    *)
(* faults; it returns false for a status error without a details record    *)
(* and for one whose details hold no cause.                                *)
C26_ClassifierTotal ==
    /\ cOut \in {"none", "true", "false"}
    /\ cMtcOut \in {"none", "true", "false"}
    /\ (cErr.kind = "status" /\ cErr.causes = <<>>)
       => (cOut \in {"none", "false"} /\ cMtcOut \in {"none", "false"})

(* C21: a constructor that finds no node name, cannot register a scheme or *)
(* cannot build the manager returns an error and no controller, and has    *)
(* not set up a reconciler with a manager.                                 *)
C21_ConstructionFailsFast ==
    LET fails == \/ ctorEnv.nodeName = "" \/ ~ctorEnv.clientGoSchemeOK
                 \/ ~ctorEnv.crdSchemeOK \/ ~ctorEnv.managerOK
    IN  /\ (rcNew.called /\ fails)
           => (rcNew.err # NoErr /\ rcNew.controller.isNil /\ ~rcNew.setupCalled)
        /\ (mtcNew.called /\ fails)
           => (mtcNew.err # NoErr /\ mtcNew.controller.isNil /\ ~mtcNew.setupCalled)
        /\ (rcNew.called /\ ~rcNew.controller.isNil)
           => (rcNew.err = NoErr /\ ~rcNew.controller.initialized /\ ~rcNew.controller.Started)

(* with everything else in place and no node name both constructors have returned the error *)
C21_Witness ==
    /\ ctorEnv = [GoodEnv EXCEPT !.nodeName = ""]
    /\ rcNew.called /\ rcNew.err = ErrNoNodeName /\ rcNew.controller.isNil
    /\ mtcNew.called /\ mtcNew.err = ErrNoNodeName

(* C27: SendToTelemetryService returns only when its context has been     *)
(* cancelled, and then with the buffer closed; it does not fault; and      *)
(* every report it has received has led to one write attempt once the     *)
(* handling of that report is over.                                        *)
C27_HandlesReportsUntilCancelled ==
    /\ tpc = "returned" => (tctxDone /\ tbClosed)
    /\ tpc # "panic"
    /\ tpc \notin {"state", "write"} => writes = taken

====
